---- MODULE Spec2Model ----
(***************************************************************************)
(* Account and messaging handlers of the Farmer-Supplier Communication API *)
(* (src/main.py) over the two document collections "account" and           *)
(* "message" (src/schemas.py).                                             *)
(*                                                                         *)
(* The handlers are plain `def` endpoints, which FastAPI runs on a thread  *)
(* pool: requests overlap, and a handler can be preempted between two      *)
(* store calls.  register is the one handler whose store calls form a      *)
(* check-then-act pair (find_one at line 85, insert at line 99), so it is  *)
(* modelled as two steps with the request in flight in between.  The other *)
(* handlers either make one store call (login, admin_toggle_active,        *)
(* list_messages, admin_list_accounts) or read only accounts, which no     *)
(* handler removes, before their single write (send_message); each is one  *)
(* step.                                                                   *)
(*                                                                         *)
(* database.py (db, create_document, get_documents) is not among the       *)
(* sources.  The handle is taken to be connected (db is not None, so the   *)
(* 500 "Database not available" answers do not arise), create_document to  *)
(* be a plain insert_one that returns str(_id), and get_documents to be    *)
(* list(find(filter)), as sections 4.2, 4.3 and 5 of the specification     *)
(* describe the store; main.py creates no index and catches no store       *)
(* error.                                                                  *)
(***************************************************************************)
EXTENDS Integers, Sequences, FiniteSets, Bags, TLC

VARIABLES account, message, inflight, nextOid, resp

vars == <<account, message, inflight, nextOid, resp>>

----------------------------------------------------------------------------
(* Bounds of the model *)

\* documents the "account" collection holds; a register request is taken
\* up only while the accounts stored and the requests in flight leave room
\* for its insert
MaxAccounts == 2
\* documents the "message" collection holds
MaxMessages == 1

----------------------------------------------------------------------------
(* Inputs *)

Roles == {"farmer", "supplier", "admin"}

\* RegisterRequest payloads: two that share an email and differ in every
\* other field, one on a second email, and one whose role is outside the
\* fixed set (its email is unused at first and stored later).
RegisterInputs ==
    { [name |-> "Ann", email |-> "a@x.io", password |-> "pw1", role |-> "farmer"],
      [name |-> "Bob", email |-> "a@x.io", password |-> "pw2", role |-> "supplier"],
      [name |-> "Bob", email |-> "b@x.io", password |-> "pw1", role |-> "admin"],
      [name |-> "Dee", email |-> "a@x.io", password |-> "pw2", role |-> "gardener"] }

Emails == {"a@x.io", "b@x.io"}
Passwords == {"pw1", "pw2"}
Contents == {"", "hello"}

\* Message.content: Field(min_length=1, max_length=2000)
MinContentLen == 1
MaxContentLen == 2000

----------------------------------------------------------------------------
(* bson.ObjectId and its string forms *)

\* str(ObjectId) is 24 lower-case hex digits; ObjectId(s) takes any string of
\* 24 hex digits, in either case.  The n-th generated id is written with its
\* leading zeros dropped.
OidLower == <<"5f0a", "5f0b", "5f0c", "5f0d", "5f0e", "5f0f">>
OidUpper == <<"5F0A", "5F0B", "5F0C", "5F0D", "5F0E", "5F0F">>

\* the driver numbers the documents of both collections as it creates them
Oids == 1..(MaxAccounts + MaxMessages)

\* strings that are not 24 hex digits (the empty string is another; it is
\* drawn as a peer_id, where it has a meaning of its own)
Malformed == {"xyz"}

IdInputs == {OidLower[n] : n \in Oids} \cup {OidUpper[n] : n \in Oids} \cup Malformed

\* ObjectId.is_valid(s)
IsValidOid(s) == \E n \in Oids : s = OidLower[n] \/ s = OidUpper[n]

\* ObjectId(s) for a valid s: the id both spellings denote
ObjectId(s) == CHOOSE n \in Oids : s = OidLower[n] \/ s = OidUpper[n]

\* str(oid)
OidStr(n) == OidLower[n]

----------------------------------------------------------------------------
(* hash_password *)

\* sha256(password).hexdigest(), first eight digits
Sha256Hex == [p \in Passwords |->
                 IF p = "pw1" THEN "c592df4a" ELSE "93915a0a"]

hash_password(password) == Sha256Hex[password]

----------------------------------------------------------------------------
(* Store calls *)

\* datetime.now(timezone.utc) as admin_toggle_active reads it
Times == {"t1", "t2"}

\* updated_at of a document that admin_toggle_active has not written
NoTime == "unset"

Range(seq) == {seq[i] : i \in DOMAIN seq}

\* collection.find_one({field: value}): the first matching document in
\* natural order, as a sequence of length 0 (None) or 1
find_one(coll, field, value) ==
    LET hits == SelectSeq(coll, LAMBDA d : d[field] = value)
    IN  IF hits = <<>> THEN <<>> ELSE <<hits[1]>>

\* create_document("account", Account(...)): insert_one, returns str(_id)
create_account(acc, oid) ==
    Append(account, [_id |-> oid,
                     name |-> acc.name,
                     email |-> acc.email,
                     password_hash |-> acc.password_hash,
                     role |-> acc.role,
                     is_active |-> acc.is_active,
                     updated_at |-> NoTime])

----------------------------------------------------------------------------
(* Responses *)

\* raise HTTPException(status_code, detail)
HTTPException(status_code, detail) ==
    [status |-> status_code, body |-> [detail |-> detail]]

Ok(body) == [status |-> 200, body |-> body]

Response(op, args, r) ==
    [op |-> op, args |-> args, status |-> r.status, body |-> r.body]

\* a pydantic ValidationError escaping the handler: FastAPI answers 500
ServerError == [status |-> 500, body |-> [detail |-> "Internal Server Error"]]

NoArgs == <<>>

NoResponse == [op |-> "none", args |-> NoArgs, status |-> 0, body |-> <<>>]

----------------------------------------------------------------------------
(* POST /auth/register *)

EmailStored(email) == \E i \in DOMAIN account : account[i].email = email

\* register_check with the role validated before the email lookup
register_check_role_first(payload) ==
    LET existing == find_one(account, "email", payload.email)
    IN  IF payload.role \notin Roles
        THEN HTTPException(400, "Invalid role")
        ELSE IF existing # <<>>
        THEN HTTPException(400, "Email already registered")
        ELSE Ok(<<>>)

\* register_check with the role validation left out
register_check_no_role(payload) ==
    LET existing == find_one(account, "email", payload.email)
    IN  IF existing # <<>>
        THEN HTTPException(400, "Email already registered")
        ELSE Ok(<<>>)

\* lines 85-90: the lookup and the two rejections
register_check(payload) ==
    LET existing == find_one(account, "email", payload.email)
    IN  IF existing # <<>>
        THEN HTTPException(400, "Email already registered")
        ELSE IF payload.role \notin Roles
        THEN HTTPException(400, "Invalid role")
        ELSE Ok(<<>>)

\* step 1: find_one, then the role check; a request that passes both is in
\* flight until its insert
register_find(payload) ==
    LET r == register_check(payload)
    IN  /\ resp = NoResponse
        /\ IF r.status # 200
           THEN /\ resp' = Response("register", payload, r)
                /\ UNCHANGED <<account, message, inflight, nextOid>>
           ELSE /\ Len(account) + BagCardinality(inflight) < MaxAccounts
                /\ inflight' = inflight (+) SetToBag({payload})
                /\ UNCHANGED <<account, message, nextOid, resp>>

\* lines 92-98: the Account document built from the payload
NewAccount(payload) ==
    [name |-> payload.name,
     email |-> payload.email,
     password_hash |-> hash_password(payload.password),
     role |-> payload.role,
     is_active |-> TRUE]

\* Account(...): role is the one field pydantic can reject here
ValidAccount(acc) == acc.role \in Roles

\* step 2: lines 92-100
register_create(payload) ==
    /\ resp = NoResponse
    /\ BagIn(payload, inflight)
    /\ inflight' = inflight (-) SetToBag({payload})
    /\ IF ValidAccount(NewAccount(payload))
       THEN /\ nextOid' = nextOid + 1
            /\ account' = create_account(NewAccount(payload), nextOid + 1)
            /\ resp' = Response("register", payload,
                                Ok([message |-> "Registered successfully",
                                    id |-> OidStr(nextOid + 1)]))
       ELSE /\ resp' = Response("register", payload, ServerError)
            /\ UNCHANGED <<account, nextOid>>
    /\ UNCHANGED message

----------------------------------------------------------------------------
(* POST /auth/login *)

\* login_result with the activation test ahead of the password test
login_result_active_first(email, password) ==
    LET found == find_one(account, "email", email)
    IN  IF found = <<>>
        THEN HTTPException(401, "Invalid credentials")
        ELSE IF ~found[1].is_active
        THEN HTTPException(403, "Account is deactivated")
        ELSE IF found[1].password_hash # hash_password(password)
        THEN HTTPException(401, "Invalid credentials")
        ELSE Ok([message |-> "Login successful",
                 account |-> [id |-> OidStr(found[1]._id),
                              name |-> found[1].name,
                              email |-> found[1].email,
                              role |-> found[1].role,
                              is_active |-> found[1].is_active]])

\* lines 106-123: what login answers
login_result(email, password) ==
    LET found == find_one(account, "email", email)
    IN  IF found = <<>>
        THEN HTTPException(401, "Invalid credentials")
        ELSE IF found[1].password_hash # hash_password(password)
        THEN HTTPException(401, "Invalid credentials")
        ELSE IF ~found[1].is_active
        THEN HTTPException(403, "Account is deactivated")
        ELSE Ok([message |-> "Login successful",
                 account |-> [id |-> OidStr(found[1]._id),
                              name |-> found[1].name,
                              email |-> found[1].email,
                              role |-> found[1].role,
                              is_active |-> found[1].is_active]])

login(email, password) ==
    /\ resp = NoResponse
    /\ resp' = Response("login", [email |-> email, password |-> password],
                        login_result(email, password))
    /\ UNCHANGED <<account, message, inflight, nextOid>>

----------------------------------------------------------------------------
(* POST /messages *)

\* Message(...): content is the one field pydantic can reject
ValidContent(content) ==
    Len(content) >= MinContentLen /\ Len(content) <= MaxContentLen

\* create_document("message", Message(...)): insert_one, returns str(_id)
create_message(msg, oid) ==
    Append(message, [_id |-> oid,
                     sender_id |-> msg.sender_id,
                     receiver_id |-> msg.receiver_id,
                     content |-> msg.content,
                     read |-> msg.read])

\* send_check looking up the accounts before it parses the sender id
send_check_lookup_first(sender_id, receiver_id, content) ==
    IF ~IsValidOid(receiver_id)
    THEN HTTPException(400, "Invalid user id")
    ELSE LET recv_obj == ObjectId(receiver_id)
             receiver == find_one(account, "_id", recv_obj)
         IN  IF receiver = <<>>
             THEN HTTPException(404, "User not found")
             ELSE IF ~IsValidOid(sender_id)
             THEN HTTPException(400, "Invalid user id")
             ELSE IF find_one(account, "_id", ObjectId(sender_id)) = <<>>
             THEN HTTPException(404, "User not found")
             ELSE IF ~ValidContent(content)
             THEN ServerError
             ELSE Ok(<<>>)

\* lines 131-147: what send_message answers, short of the inserted id
send_check(sender_id, receiver_id, content) ==
    IF ~IsValidOid(receiver_id) \/ ~IsValidOid(sender_id)
    THEN HTTPException(400, "Invalid user id")
    ELSE LET recv_obj == ObjectId(receiver_id)
             send_obj == ObjectId(sender_id)
             receiver == find_one(account, "_id", recv_obj)
             sender == find_one(account, "_id", send_obj)
         IN  IF receiver = <<>> \/ sender = <<>>
             THEN HTTPException(404, "User not found")
             ELSE IF ~ValidContent(content)
             THEN ServerError
             ELSE Ok(<<>>)

\* lines 142-147: the Message document built from the payload
NewMessage(sender_id, receiver_id, content) ==
    [sender_id |-> sender_id,
     receiver_id |-> receiver_id,
     content |-> content,
     read |-> FALSE]

send_message(sender_id, receiver_id, content) ==
    LET r == send_check(sender_id, receiver_id, content)
        args == [sender_id |-> sender_id, receiver_id |-> receiver_id,
                 content |-> content]
    IN  /\ resp = NoResponse
        /\ IF r.status # 200
           THEN /\ resp' = Response("send", args, r)
                /\ UNCHANGED <<account, message, inflight, nextOid>>
           ELSE /\ Len(message) < MaxMessages
                /\ nextOid' = nextOid + 1
                /\ message' = create_message(NewMessage(sender_id, receiver_id, content),
                                             nextOid + 1)
                /\ resp' = Response("send", args,
                                    Ok([message |-> "Message sent",
                                        id |-> OidStr(nextOid + 1)]))
                /\ UNCHANGED <<account, inflight>>

----------------------------------------------------------------------------
(* GET /messages *)

\* peer_id: Optional[str] is a sequence of length 0 (None) or 1
NoPeer == <<>>
PeerInputs == {NoPeer, <<"">>} \cup {<<s>> : s \in IdInputs}

\* `if peer_id:` -- None and the empty string are both falsy
Truthy(peer_id) == peer_id # NoPeer /\ peer_id[1] # ""

\* lines 155-160: the query document, as the predicate it denotes
list_query(user_id, peer_id, d) ==
    IF Truthy(peer_id)
    THEN \/ d.sender_id = user_id /\ d.receiver_id = peer_id[1]
         \/ d.sender_id = peer_id[1] /\ d.receiver_id = user_id
    ELSE d.sender_id = user_id \/ d.receiver_id = user_id

\* get_documents(collection, filter): list(collection.find(filter)), the
\* filter given as the set of documents it matches
get_documents(coll, matching) == SelectSeq(coll, LAMBDA d : d \in matching)

\* lines 162-163: _id rendered as a string
MessageView(d) == [_id |-> OidStr(d._id),
                   sender_id |-> d.sender_id,
                   receiver_id |-> d.receiver_id,
                   content |-> d.content,
                   read |-> d.read]

list_result(user_id, peer_id) ==
    LET docs == get_documents(message,
                              {d \in Range(message) : list_query(user_id, peer_id, d)})
    IN  [i \in DOMAIN docs |-> MessageView(docs[i])]

list_messages(user_id, peer_id) ==
    /\ resp = NoResponse
    /\ resp' = Response("list", [user_id |-> user_id, peer_id |-> peer_id],
                        Ok([messages |-> list_result(user_id, peer_id)]))
    /\ UNCHANGED <<account, message, inflight, nextOid>>

----------------------------------------------------------------------------
(* GET /admin/accounts *)

\* AccountView without the pop of password_hash
AccountView_keep_hash(a) == [_id |-> OidStr(a._id),
                             name |-> a.name,
                             email |-> a.email,
                             password_hash |-> a.password_hash,
                             role |-> a.role,
                             is_active |-> a.is_active,
                             updated_at |-> a.updated_at]

\* lines 172-174: _id rendered as a string, password_hash popped
AccountView(a) == [_id |-> OidStr(a._id),
                   name |-> a.name,
                   email |-> a.email,
                   role |-> a.role,
                   is_active |-> a.is_active,
                   updated_at |-> a.updated_at]

accounts_result ==
    LET accounts == get_documents(account, Range(account))
    IN  [i \in DOMAIN accounts |-> AccountView(accounts[i])]

admin_list_accounts ==
    /\ resp = NoResponse
    /\ resp' = Response("listAccounts", NoArgs, Ok([accounts |-> accounts_result]))
    /\ UNCHANGED <<account, message, inflight, nextOid>>

----------------------------------------------------------------------------
(* POST /admin/toggle-active *)

\* update_one with an update_many in its place and a filter that matches
\* every document once obj_id is present
update_one_all(obj_id, active, at) ==
    [i \in DOMAIN account |->
        [account[i] EXCEPT !.is_active = active, !.updated_at = at]]

\* update_one({"_id": obj_id}, {"$set": {...}}): the collection afterwards
update_one(obj_id, active, at) ==
    [i \in DOMAIN account |->
        IF account[i]._id = obj_id
        THEN [account[i] EXCEPT !.is_active = active, !.updated_at = at]
        ELSE account[i]]

\* res.matched_count
matched_count(obj_id) ==
    Cardinality({i \in DOMAIN account : account[i]._id = obj_id})

toggle_check(account_id) ==
    IF ~IsValidOid(account_id)
    THEN HTTPException(400, "Invalid account id")
    ELSE IF matched_count(ObjectId(account_id)) = 0
    THEN HTTPException(404, "Account not found")
    ELSE Ok([message |-> "Status updated"])

admin_toggle_active(account_id, active, at) ==
    LET r == toggle_check(account_id)
        args == [account_id |-> account_id, active |-> active]
    IN  /\ resp = NoResponse
        /\ resp' = Response("toggle", args, r)
        /\ IF r.status # 200
           THEN UNCHANGED <<account, message, inflight, nextOid>>
           ELSE /\ account' = update_one(ObjectId(account_id), active, at)
                /\ UNCHANGED <<message, inflight, nextOid>>

----------------------------------------------------------------------------
(* The response leaves the server *)

\* The front end writes the pending response to the caller.  It touches no
\* collection, so taking it before the next store call loses no
\* interleaving of store calls; resp is then always the answer to the
\* latest handler step, next to the store as that step left it.
deliver ==
    /\ resp # NoResponse
    /\ resp' = NoResponse
    /\ UNCHANGED <<account, message, inflight, nextOid>>

----------------------------------------------------------------------------

Init ==
    /\ account = <<>>
    /\ message = <<>>
    /\ inflight = EmptyBag
    /\ nextOid = 0
    /\ resp = NoResponse

Next ==
    \/ \E payload \in RegisterInputs : register_find(payload)
    \/ \E payload \in RegisterInputs : register_create(payload)
    \/ \E email \in Emails, password \in Passwords : login(email, password)
    \/ \E sender_id \in IdInputs, receiver_id \in IdInputs, content \in Contents :
          send_message(sender_id, receiver_id, content)
    \/ \E user_id \in IdInputs, peer_id \in PeerInputs : list_messages(user_id, peer_id)
    \/ admin_list_accounts
    \/ \E account_id \in IdInputs, active \in BOOLEAN, at \in Times :
          admin_toggle_active(account_id, active, at)
    \/ deliver

Spec == Init /\ [][Next]_vars

----------------------------------------------------------------------------
(* Vocabulary of the properties *)

store == <<account, message, inflight, nextOid>>

\* the account, if any, that ObjectId(s) names
Names(s, i) == IsValidOid(s) /\ account[i]._id = ObjectId(s)
NamesAccount(s) == \E i \in DOMAIN account : Names(s, i)

\* account i was registered with these credentials
Credentials(i, email, password) ==
    /\ account[i].email = email
    /\ account[i].password_hash = hash_password(password)

\* the view of account i that a successful login returns
Sanitized(i) == [id |-> OidStr(account[i]._id),
                 name |-> account[i].name,
                 email |-> account[i].email,
                 role |-> account[i].role,
                 is_active |-> TRUE]

AuthError == HTTPException(401, "Invalid credentials")
ForbiddenError == HTTPException(403, "Account is deactivated")
ConflictError == HTTPException(400, "Email already registered")
ValidationError == HTTPException(400, "Invalid role")
InvalidUserId == HTTPException(400, "Invalid user id")
UserNotFound == HTTPException(404, "User not found")

Answers(r) == resp'.status = r.status /\ resp'.body = r.body

\* this step is a handler of the operation answering a request
Handles(op) == resp = NoResponse /\ resp'.op = op

\* this step is a handler of the operation answering with an error
Rejects(op) == Handles(op) /\ resp'.status # 200

\* this step is register passing its lookup and role check: the request
\* goes on to the insert
EntersFlight(payload) == CopiesIn(payload, inflight') > CopiesIn(payload, inflight)
Answered(r) == resp.status = r.status /\ resp.body = r.body

----------------------------------------------------------------------------
(* C1 *)

\* C1: in every reachable state, also when the two steps of concurrent
\* register calls interleave, no two stored accounts have the same email.
EmailUniqueness ==
    \A i, j \in DOMAIN account : account[i].email = account[j].email => i = j

----------------------------------------------------------------------------
(* C2 *)

\* C2: a register that succeeds has created exactly one account, active and
\* holding the payload, under the id it returns; and a login with the email
\* and password of a registered account that no toggleActive has touched
\* succeeds and returns that account's id, name, email, role and
\* is_active = true.
RegisterThenLogin ==
    /\ (resp.op = "register" /\ resp.status = 200) =>
          /\ Cardinality({i \in DOMAIN account :
                             OidStr(account[i]._id) = resp.body.id}) = 1
          /\ \A i \in DOMAIN account :
                OidStr(account[i]._id) = resp.body.id =>
                   /\ account[i].name = resp.args.name
                   /\ Credentials(i, resp.args.email, resp.args.password)
                   /\ account[i].role = resp.args.role
                   /\ account[i].is_active
    /\ resp.op = "login" =>
          \A i \in DOMAIN account :
             (/\ Credentials(i, resp.args.email, resp.args.password)
              /\ account[i].updated_at = NoTime)
             => /\ resp.status = 200
                /\ resp.body.account = Sanitized(i)

\* what is left of C2 while no email is stored twice
RegisterThenLoginWhileUnique == EmailUniqueness => RegisterThenLogin

----------------------------------------------------------------------------
(* C3 *)

\* C3: a login with the email and password of an account that toggleActive
\* has written answers by that account's is_active: ForbiddenError while it
\* is false, success with that account's id once it is true again; and a
\* toggleActive(id, v) that succeeds leaves is_active = v, however often it
\* is repeated.
ToggleThenLogin ==
    /\ resp.op = "login" =>
          \A i \in DOMAIN account :
             (/\ Credentials(i, resp.args.email, resp.args.password)
              /\ account[i].updated_at # NoTime)
             => IF account[i].is_active
                THEN resp.status = 200 /\ resp.body.account = Sanitized(i)
                ELSE Answered(ForbiddenError)
    /\ (resp.op = "toggle" /\ resp.status = 200) =>
          \A i \in DOMAIN account :
             Names(resp.args.account_id, i) =>
                account[i].is_active = resp.args.active

\* what is left of C3 while no email is stored twice
ToggleThenLoginWhileUnique == EmailUniqueness => ToggleThenLogin

----------------------------------------------------------------------------
(* C4 *)

\* C4: a register call that finds its email stored answers ConflictError,
\* whatever its name, password and role (a role outside the fixed set
\* included), and changes nothing in the store: it is answered at once,
\* never passed on to the insert.
RegisterConflict ==
    [][/\ (Rejects("register") /\ EmailStored(resp'.args.email))
          => Answers(ConflictError) /\ UNCHANGED store
       /\ \A payload \in RegisterInputs :
             EntersFlight(payload) => ~EmailStored(payload.email)]_vars

\* a register call with a role outside the fixed set was answered with
\* ConflictError
RegisterConflictReached ==
    /\ resp.op = "register"
    /\ Answered(ConflictError)
    /\ resp.args.role \notin Roles
    /\ EmailStored(resp.args.email)

----------------------------------------------------------------------------
(* C5 *)

\* the account find_one matches for this email has another password hash
WrongPassword(email, password) ==
    LET found == find_one(account, "email", email)
    IN  found # <<>> /\ found[1].password_hash # hash_password(password)

\* C5: a login with an unregistered email, and a login with a registered
\* email and a password whose hash differs from the stored one, both answer
\* the same AuthError (401, "Invalid credentials"), whether the matched
\* account is active or not, and change nothing in the store.
LoginAuthError ==
    [][(/\ Handles("login")
        /\ \/ ~EmailStored(resp'.args.email)
           \/ WrongPassword(resp'.args.email, resp'.args.password))
       => Answers(AuthError) /\ UNCHANGED store]_vars

\* a wrong password on a deactivated account was answered with AuthError
LoginAuthErrorReached ==
    /\ resp.op = "login"
    /\ Answered(AuthError)
    /\ WrongPassword(resp.args.email, resp.args.password)
    /\ ~find_one(account, "email", resp.args.email)[1].is_active

----------------------------------------------------------------------------
(* C6 *)

\* the message a successful send has just stored
Sent == CHOOSE m \in Range(message) : OidStr(m._id) = resp.body.id

\* the account id, as register returned it, that the id string s names
Registered(s) == OidStr(ObjectId(s))

WellFormed == {s \in IdInputs : IsValidOid(s)}

\* C6: after a send succeeds, the new message is in list(s), list(r),
\* list(s, r) and list(r, s) for the ids s and r, as register returned
\* them, of the accounts the request named; and list(x, y) and list(y, x)
\* hold the same messages for all ids x and y.
SendThenList ==
    /\ (resp.op = "send" /\ resp.status = 200) =>
          LET s == Registered(resp.args.sender_id)
              r == Registered(resp.args.receiver_id)
              m == MessageView(Sent)
          IN  /\ m \in Range(list_result(s, NoPeer))
              /\ m \in Range(list_result(r, NoPeer))
              /\ m \in Range(list_result(s, <<r>>))
              /\ m \in Range(list_result(r, <<s>>))
    /\ \A x, y \in WellFormed :
          Range(list_result(x, <<y>>)) = Range(list_result(y, <<x>>))

\* what is left of C6 for requests that spell the ids as register
\* returned them
SendThenListCanonical ==
    \/ /\ resp.op = "send" /\ resp.status = 200
       /\ \/ resp.args.sender_id # Registered(resp.args.sender_id)
          \/ resp.args.receiver_id # Registered(resp.args.receiver_id)
    \/ SendThenList

----------------------------------------------------------------------------
(* C7 *)

\* C7: send answers InvalidId when either id is malformed, also when the
\* other id names no account, and NotFoundError when both ids are
\* well-formed and the sender or the receiver is not a stored account; in
\* both cases nothing in the store changes.
SendErrors ==
    [][Handles("send") =>
          LET sender_id == resp'.args.sender_id
              receiver_id == resp'.args.receiver_id
          IN  /\ (~IsValidOid(sender_id) \/ ~IsValidOid(receiver_id))
                 => Answers(InvalidUserId) /\ UNCHANGED store
              /\ (/\ IsValidOid(sender_id) /\ IsValidOid(receiver_id)
                  /\ (~NamesAccount(sender_id) \/ ~NamesAccount(receiver_id)))
                 => Answers(UserNotFound) /\ UNCHANGED store]_vars

\* a send with a malformed sender id and a well-formed receiver id that
\* names no account was answered with InvalidId
SendErrorsReached ==
    /\ resp.op = "send"
    /\ Answered(InvalidUserId)
    /\ ~IsValidOid(resp.args.sender_id)
    /\ IsValidOid(resp.args.receiver_id)
    /\ ~NamesAccount(resp.args.receiver_id)

----------------------------------------------------------------------------
(* C8 *)

\* C8: a register call with a role outside the fixed set and an email that
\* is not stored answers ValidationError and creates no account, then or
\* later: the store is as before, the request is not in flight, and no
\* stored account has such a role.
RegisterInvalidRole ==
    [][/\ (/\ Rejects("register")
           /\ resp'.args.role \notin Roles
           /\ ~EmailStored(resp'.args.email))
          => Answers(ValidationError) /\ UNCHANGED store
       /\ \A payload \in RegisterInputs :
             EntersFlight(payload) => payload.role \in Roles
       /\ \A i \in DOMAIN account' : account'[i].role \in Roles]_vars

\* a register call was answered with ValidationError while its email was
\* not stored
RegisterInvalidRoleReached ==
    /\ resp.op = "register"
    /\ Answered(ValidationError)
    /\ resp.args.role = "gardener"
    /\ ~EmailStored(resp.args.email)

----------------------------------------------------------------------------
(* C9 *)

\* C9: no record returned by listAccounts has a password_hash field, and
\* the account view of a successful login has the fields id, name, email,
\* role and is_active and no other.
NoPasswordHashReturned ==
    /\ resp.op = "listAccounts" =>
          \A i \in DOMAIN resp.body.accounts :
             "password_hash" \notin DOMAIN resp.body.accounts[i]
    /\ (resp.op = "login" /\ resp.status = 200) =>
          DOMAIN resp.body.account = {"id", "name", "email", "role", "is_active"}

\* listAccounts returned the records of two stored accounts
NoPasswordHashReturnedReached ==
    /\ resp.op = "listAccounts"
    /\ Len(resp.body.accounts) = 2
    /\ Len(account) = 2

----------------------------------------------------------------------------
(* C10 *)

\* C10: no step removes a stored account or message; a stored account's
\* id, name, email, password_hash and role never change; is_active changes
\* only in a successful toggleActive on that account's id, to the value
\* asked for, with every other account left as it was; a toggleActive that
\* fails changes nothing; and a stored message never changes and has
\* read = false.
FrameEffect ==
    [][/\ Len(account') >= Len(account)
       /\ Len(message') >= Len(message)
       /\ \A i \in DOMAIN account :
             /\ account'[i]._id = account[i]._id
             /\ account'[i].name = account[i].name
             /\ account'[i].email = account[i].email
             /\ account'[i].password_hash = account[i].password_hash
             /\ account'[i].role = account[i].role
             /\ account'[i].is_active # account[i].is_active
                => /\ resp'.op = "toggle" /\ resp'.status = 200
                   /\ Names(resp'.args.account_id, i)
                   /\ account'[i].is_active = resp'.args.active
                   /\ \A j \in DOMAIN account : j # i => account'[j] = account[j]
       /\ \A i \in DOMAIN message : message'[i] = message[i]
       /\ \A i \in DOMAIN message' : message'[i].read = FALSE
       /\ Rejects("toggle") => UNCHANGED store]_vars

\* a toggleActive succeeded on one of two stored accounts, with a message
\* in the store
FrameEffectReached ==
    /\ resp.op = "toggle"
    /\ resp.status = 200
    /\ Len(account) = 2
    /\ Len(message) = 1
    /\ \E i, j \in DOMAIN account : account[i].is_active # account[j].is_active

====
